---- MODULE Spec2Model ----
(***************************************************************************)
(* StaffManager (src/src/components/Staff/index.tsx): the roster of staff  *)
(* members held in React state, the pending-action selections, the         *)
(* mount-time load and the fire-and-forget saves.                          *)
(*                                                                         *)
(* One action per handler, callback or promise settlement.  A handler runs *)
(* on the state of the latest render.  A setStaff made in an event handler *)
(* is rendered, and the save effect of lines 42-48 run, before the next    *)
(* event: both are part of the handler's action.  A setStaff made in a     *)
(* promise callback is rendered by a step of its own (Render), which may   *)
(* come after further callbacks and handlers; the save effect of that      *)
(* render runs in a later step again (RunEffect), or at the start of the   *)
(* next step that renders, whichever comes first.                          *)
(*                                                                         *)
(* storage.staff (utils/storage) is outside this file: a save is a promise *)
(* that resolves or rejects at any later time, and a save that resolves    *)
(* has persisted the roster it was given.                                  *)
(*                                                                         *)
(* An optional value (T | undefined) is a sequence of length 0 or 1.       *)
(***************************************************************************)
EXTENDS Integers, Sequences, FiniteSets, TLC

(* ---------------------------- bounds ----------------------------------- *)
\* longest roster an add may extend
MaxStaff == 2
\* most discounts a member may have before another is added
MaxDiscounts == 3
\* most save requests in flight at once
MaxInFlight == 2
\* most pending-action selections set at once
MaxOpen == 2
\* most user gestures (handler and callback invocations) in a session
MaxGestures == 4
\* least value Date.now() returns in the session
StartClock == 2
\* greatest value Date.now() returns in the session
MaxClock == 3

(* ---------------------------- values ----------------------------------- *)
None == <<>>
Some(v) == <<v>>

\* Number.prototype.toString() of a non-negative integer
NumToString(n) == ToString(n)

\* Date.prototype.toISOString() of a time t < 1000 ms after the epoch
toISOString(t) ==
    "1970-01-01T00:00:00."
        \o (IF t < 10 THEN "00" ELSE IF t < 100 THEN "0" ELSE "")
        \o ToString(t) \o "Z"

\* what the form submits: Omit<Staff, 'id' | 'sales' | 'discounts'>
StaffData == {[name |-> "Eva", code |-> "E3"], [name |-> "Leo", code |-> "L4"]}
\* what the add-discount modal confirms
DiscountData == {[amount |-> 50, reason |-> "promo"]}
\* what the cancel-discount modal confirms
CancelReasons == {"error"}
\* what the password modals confirm
AdminPassword == "admin"
Passwords == {"admin", "1234"}

\* a roster persisted by an earlier session: ids are earlier Date.now() values
Stored1 ==
    [id |-> "0", name |-> "Ana", code |-> "A1",
     sales |-> <<[id |-> "s1", commissionPaid |-> FALSE, amount |-> 100],
                 [id |-> "s3", commissionPaid |-> FALSE, amount |-> 40]>>,
     discounts |-> <<[id |-> "0", date |-> toISOString(0), amount |-> 20,
                      reason |-> "adelanto", status |-> "active",
                      cancellationReason |-> None],
                     [id |-> "1", date |-> toISOString(1), amount |-> 30,
                      reason |-> "prestamo", status |-> "cancelled",
                      cancellationReason |-> Some("duplicado")]>>]
Stored2 ==
    [id |-> "1", name |-> "Luis", code |-> "L2",
     sales |-> <<[id |-> "s2", commissionPaid |-> TRUE, amount |-> 70]>>,
     discounts |-> <<>>]
\* what storage.staff.load() may resolve with: a list, or a value that is no list
LoadValues ==
    { [isArray |-> TRUE, value |-> <<>>],
      [isArray |-> TRUE, value |-> <<Stored1, Stored2>>],
      [isArray |-> FALSE, value |-> <<>>] }

(* ---------------------------- state ------------------------------------ *)
VARIABLES
    staff,                 \* useState<Staff[]>([])
    showStaffForm,         \* useState(false)
    editingStaff,          \* Staff | undefined
    selectedStaff,         \* Staff | undefined
    cancellingDiscountId,  \* string | undefined
    discountingStaff,      \* Staff | undefined
    deletingStaffId,       \* string | undefined
    clearingHistoryStaff,  \* Staff | undefined
    deleteError,           \* string
    loading,               \* TRUE while storage.staff.load() is pending
    scheduled,             \* the roster a promise callback passed to setStaff,
                           \* until React renders it
    effectDue,             \* TRUE from the commit of such a render until the
                           \* save effect of lines 42-48 has run on it
    saves,                 \* storage.staff.save() promises pending, in issue order
    written,               \* the roster storage wrote in the last step, None if none
    now,                   \* what Date.now() returned last
    last,                  \* the handler or callback that ran last, with its input
    logged,                \* console.error messages of the last step
    alerted,               \* alert() messages of the last step
    gestures,              \* user gestures handled so far
    removed                \* ids whose deletion was confirmed and saved

selections ==
    <<showStaffForm, editingStaff, selectedStaff, cancellingDiscountId,
      discountingStaff, deletingStaffId, clearingHistoryStaff, deleteError>>
vars ==
    <<staff, showStaffForm, editingStaff, selectedStaff, cancellingDiscountId,
      discountingStaff, deletingStaffId, clearingHistoryStaff, deleteError,
      loading, scheduled, effectDue, saves, written, now, last, logged, alerted, gestures,
      removed>>

(* ---------------------------- helpers ---------------------------------- *)
\* Array.prototype.map
Map(F(_), s) == [i \in 1..Len(s) |-> F(s[i])]
\* Array.prototype.filter
Filter(P(_), s) == SelectSeq(s, P)

\* number of pending-action selections that are set
OpenCount ==
    Len(editingStaff) + Len(selectedStaff) + Len(cancellingDiscountId)
        + Len(discountingStaff) + Len(deletingStaffId) + Len(clearingHistoryStaff)

\* a save request: the roster passed to storage.staff.save, the call site that
\* issued it, and the `staff` its rejection handler closes over (used by the
\* deletion's handler only)
SaveRequest(roster, origin, closure) ==
    [roster |-> roster, origin |-> origin, closure |-> closure]

\* variant of SaveEffect without the length test
SaveEffectAlways(roster) == <<SaveRequest(roster, "effect", None)>>

\* the effect "save staff whenever they change" run on the committed roster
SaveEffect(roster) ==
    IF Len(roster) > 0 THEN <<SaveRequest(roster, "effect", None)>> ELSE <<>>

Quiet == logged' = {} /\ alerted' = {}
\* no storage.staff.save() resolves in the step: storage reports no write
NoWrite == written' = None

\* the save a pending run of the save effect issues: React runs the effects of
\* the last commit before it renders again
FlushEffect == IF effectDue THEN SaveEffect(staff) ELSE <<>>

\* the render pass React runs when an event handler or callback has called a
\* state setter, whether or not the value passed is a new one: the effects
\* still due run first
Flushing ==
    /\ saves' = saves \o FlushEffect
    /\ effectDue' = FALSE
    /\ Len(saves') <= MaxInFlight

(* ---------------------------- initial state ---------------------------- *)
Init ==
    /\ staff = <<>>
    /\ showStaffForm = FALSE
    /\ editingStaff = None
    /\ selectedStaff = None
    /\ cancellingDiscountId = None
    /\ discountingStaff = None
    /\ deletingStaffId = None
    /\ clearingHistoryStaff = None
    /\ deleteError = ""
    /\ loading = TRUE
    /\ scheduled = None
    /\ effectDue = FALSE
    /\ saves = <<>>
    /\ written = None
    /\ now = StartClock
    /\ last = [op |-> "mount"]
    /\ logged = {}
    /\ alerted = {}
    /\ gestures = 0
    /\ removed = {}

(* ---------------------------- load ------------------------------------- *)
\* storage.staff.load() resolves with data: the callback passes a list to
\* setStaff and returns; React renders the update later (Render)
LoadResolve(data) ==
    /\ loading
    /\ loading' = FALSE
    /\ scheduled' = IF data.isArray THEN Some(data.value) ELSE scheduled
    /\ last' = [op |-> "loadResolve", data |-> data]
    /\ Quiet
    /\ NoWrite
    /\ UNCHANGED <<staff, saves, effectDue, selections, removed, now>>

\* storage.staff.load() rejects: the catch logs and passes [] to setStaff
LoadReject ==
    /\ loading
    /\ loading' = FALSE
    /\ scheduled' = Some(<<>>)
    /\ last' = [op |-> "loadReject"]
    /\ logged' = {"Error loading staff:"}
    /\ alerted' = {}
    /\ NoWrite
    /\ UNCHANGED <<staff, saves, effectDue, selections, removed, now>>

\* React renders the roster a promise callback passed to setStaff and commits
\* it. A setStaff made in a promise callback is rendered inside the call
\* (React <= 17) or in a later task, batched with the calls made until then
\* (React 18 createRoot): the last value passed wins, and until the render the
\* handlers are those of the previous render. The effects of a render no event
\* handler caused run in a later task (RunEffect), those still pending from
\* the render before run first.
Render ==
    /\ scheduled # None
    /\ Len(saves) + Len(FlushEffect) <= MaxInFlight
    /\ saves' = saves \o FlushEffect
    /\ staff' = scheduled[1]
    /\ scheduled' = None
    /\ effectDue' = TRUE
    /\ last' = [op |-> "render"]
    /\ Quiet
    /\ NoWrite
    /\ UNCHANGED <<selections, loading, removed, now>>

\* the save effect of lines 42-48 runs on the roster React committed
RunEffect ==
    /\ effectDue
    /\ Len(saves) + Len(SaveEffect(staff)) <= MaxInFlight
    /\ saves' = saves \o SaveEffect(staff)
    /\ effectDue' = FALSE
    /\ last' = [op |-> "effect"]
    /\ Quiet
    /\ NoWrite
    /\ UNCHANGED <<staff, selections, loading, scheduled, removed, now>>

(* ---------------------------- save settlement ------------------------- *)
RemoveAt(s, i) == SubSeq(s, 1, i - 1) \o SubSeq(s, i + 1, Len(s))

\* what storage holds once a storage.staff.save(roster) has resolved: the roster
\* it was called with. utils/storage is not part of the source; the spec has
\* save "asynchronously persist the given roster" and leaves the order of
\* overlapping writes to the storage, which is taken here to apply each write
\* as it completes (last write wins)
Persisted(request) == Some(request.roster)

\* the ids a deletion's request removed: in the roster handleDeleteStaff ran
\* on, not in the roster it saved
RemovedBy(request) ==
    IF request.origin = "delete"
      THEN {request.closure[1][k].id : k \in 1..Len(request.closure[1])}
              \ {request.roster[k].id : k \in 1..Len(request.roster)}
      ELSE {}

\* the roster written by the resolution just before that of the i-th pending
\* request, when that was the resolution of a request issued after it
Overtaken(i) ==
    IF last.op = "saveResolve" /\ i < last.index THEN Some(last.request.roster) ELSE None

\* variant of SaveResolve in which the call has a then-handler that passes the
\* roster it saved to setStaff, as the deletion's catch does with its closure
SaveResolveSyncing(i) ==
    /\ i \in 1..Len(saves)
    /\ written' = Persisted(saves[i])
    /\ saves' = RemoveAt(saves, i)
    /\ removed' = removed \cup RemovedBy(saves[i])
    /\ scheduled' = Some(saves[i].roster)
    /\ last' = [op |-> "saveResolve", request |-> saves[i], index |-> i,
                overtaken |-> Overtaken(i)]
    /\ Quiet
    /\ UNCHANGED <<staff, selections, loading, effectDue, now>>

\* the i-th pending storage.staff.save() resolves: the calls of lines 44, 120
\* and 147 attach no then-handler, so no code of the component runs
SaveResolve(i) ==
    /\ i \in 1..Len(saves)
    /\ written' = Persisted(saves[i])
    /\ saves' = RemoveAt(saves, i)
    /\ removed' = removed \cup RemovedBy(saves[i])
    /\ last' = [op |-> "saveResolve", request |-> saves[i], index |-> i,
                overtaken |-> Overtaken(i)]
    /\ Quiet
    /\ UNCHANGED <<staff, selections, loading, scheduled, effectDue, now>>

\* the roster the deletion's rejection handler passes to setStaff: the `staff`
\* of the render in which handleDeleteStaff ran
RolledBack(request) == request.closure[1]

\* the i-th pending storage.staff.save() rejects: the effect's handler logs,
\* the deletion's handler logs, passes the `staff` it closed over to setStaff
\* and alerts, the clear-history call has no handler
SaveReject(i) ==
    /\ i \in 1..Len(saves)
    /\ last' = [op |-> "saveReject", request |-> saves[i]]
    /\ saves' = RemoveAt(saves, i)
    /\ CASE saves[i].origin = "effect" ->
              /\ logged' = {"Error saving staff:"}
              /\ alerted' = {}
              /\ UNCHANGED scheduled
         [] saves[i].origin = "delete" ->
              /\ logged' = {"Error saving staff after deletion:"}
              /\ scheduled' = Some(RolledBack(saves[i]))
              /\ alerted' = {"Error al eliminar el colaborador. Por favor intente nuevamente."}
         [] saves[i].origin = "clear" ->
              /\ Quiet
              /\ UNCHANGED scheduled
    /\ NoWrite
    /\ UNCHANGED <<staff, selections, loading, effectDue, removed, now>>

(* ---------------------------- handlers --------------------------------- *)
\* object spread { ...a, ...b }
Spread(a, b) ==
    [f \in DOMAIN a \cup DOMAIN b |-> IF f \in DOMAIN b THEN b[f] ELSE a[f]]

\* the record handleAddStaff builds at time t
NewStaff(staffData, t) ==
    Spread(staffData, [id |-> NumToString(t), sales |-> <<>>, discounts |-> <<>>])

\* Date.now() returns t: the clock does not run backwards
DateNow(t) == t \in now..MaxClock /\ now' = t

\* variant of AddedStaff that puts the new member first
AddedStaffFirst(roster, member) == <<member>> \o roster

\* [...staff, newStaff]
AddedStaff(roster, member) == Append(roster, member)

\* the form submits while no member is being edited
handleAddStaff(staffData, t) ==
    /\ showStaffForm /\ editingStaff = None
    /\ Len(staff) < MaxStaff
    /\ Len(saves) + Len(FlushEffect) < MaxInFlight
    /\ DateNow(t)
    /\ staff' = AddedStaff(staff, NewStaff(staffData, t))
    /\ showStaffForm' = FALSE
    /\ scheduled' = None
    /\ effectDue' = FALSE
    /\ saves' = saves \o FlushEffect \o SaveEffect(staff')
    /\ last' = [op |-> "handleAddStaff", staffData |-> staffData]
    /\ Quiet
    /\ NoWrite
    /\ UNCHANGED <<editingStaff, selectedStaff, cancellingDiscountId, discountingStaff,
                   deletingStaffId, clearingHistoryStaff, deleteError, loading, removed>>

\* variant of EditedStaff that rebuilds the member from the submitted fields
EditedStaffRebuilt(roster, id, staffData) ==
    Map(LAMBDA s : IF s.id = id
                     THEN Spread(staffData, [id |-> s.id, sales |-> <<>>, discounts |-> <<>>])
                     ELSE s, roster)

\* the roster handleEditStaff passes to setStaff
EditedStaff(roster, id, staffData) ==
    Map(LAMBDA s : IF s.id = id THEN Spread(s, staffData) ELSE s, roster)

\* the form submits while a member is being edited
handleEditStaff(staffData) ==
    /\ showStaffForm /\ editingStaff # None
    /\ Len(saves) + Len(FlushEffect) + Len(SaveEffect(staff)) <= MaxInFlight
    /\ staff' = EditedStaff(staff, editingStaff[1].id, staffData)
    /\ editingStaff' = None
    /\ showStaffForm' = FALSE
    /\ scheduled' = None
    /\ effectDue' = FALSE
    /\ saves' = saves \o FlushEffect \o SaveEffect(staff')
    /\ last' = [op |-> "handleEditStaff", staffData |-> staffData]
    /\ Quiet
    /\ NoWrite
    /\ UNCHANGED <<selectedStaff, cancellingDiscountId, discountingStaff,
                   deletingStaffId, clearingHistoryStaff, deleteError, loading, removed, now>>

\* Date.now() returns t and new Date() then reads u: the clock may tick
\* between the two reads
DateRead(t, u) == t \in now..MaxClock /\ u \in t..MaxClock /\ now' = u

\* the discount handleAddDiscount builds when Date.now() returns t and the
\* new Date() of the next line reads u
NewDiscount(amount, reason, t, u) ==
    [id |-> NumToString(t), date |-> toISOString(u), amount |-> amount,
     reason |-> reason, status |-> "active", cancellationReason |-> None]

\* variant of DiscountedStaff that drops the earlier discounts
DiscountedStaffOnly(roster, id, discount) ==
    Map(LAMBDA s : IF s.id = id THEN [s EXCEPT !.discounts = <<discount>>] ELSE s, roster)

\* the roster handleAddDiscount passes to setStaff
DiscountedStaff(roster, id, discount) ==
    Map(LAMBDA s : IF s.id = id
                     THEN [s EXCEPT !.discounts = Append(s.discounts, discount)]
                     ELSE s, roster)

\* the add-discount modal confirms
handleAddDiscount(amount, reason, t, u) ==
    /\ discountingStaff # None
    /\ DateRead(t, u)
    /\ \A k \in 1..Len(staff) :
          staff[k].id = discountingStaff[1].id => Len(staff[k].discounts) < MaxDiscounts
    /\ Len(saves) + Len(FlushEffect) + Len(SaveEffect(staff)) <= MaxInFlight
    /\ staff' = DiscountedStaff(staff, discountingStaff[1].id, NewDiscount(amount, reason, t, u))
    /\ discountingStaff' = None
    /\ scheduled' = None
    /\ effectDue' = FALSE
    /\ saves' = saves \o FlushEffect \o SaveEffect(staff')
    /\ last' = [op |-> "handleAddDiscount", amount |-> amount, reason |-> reason]
    /\ Quiet
    /\ NoWrite
    /\ UNCHANGED <<showStaffForm, editingStaff, selectedStaff, cancellingDiscountId,
                   deletingStaffId, clearingHistoryStaff, deleteError, loading, removed>>

\* variant of Cancelled that sets the status only
CancelledNoReason(d, reason) == Spread(d, [status |-> "cancelled"])

\* { ...d, status: 'cancelled', cancellationReason: reason }
Cancelled(d, reason) ==
    Spread(d, [status |-> "cancelled", cancellationReason |-> Some(reason)])

\* variant of CancelledStaff that cancels every discount of the member
CancelledStaffAll(roster, staffId, discountId, reason) ==
    Map(LAMBDA s :
          IF s.id = staffId
            THEN [s EXCEPT !.discounts = Map(LAMBDA d : Cancelled(d, reason), s.discounts)]
            ELSE s, roster)

\* the roster handleCancelDiscount passes to setStaff
CancelledStaff(roster, staffId, discountId, reason) ==
    Map(LAMBDA s :
          IF s.id = staffId
            THEN [s EXCEPT !.discounts =
                    Map(LAMBDA d : IF d.id = discountId THEN Cancelled(d, reason) ELSE d,
                        s.discounts)]
            ELSE s, roster)

\* the cancel-discount modal confirms
handleCancelDiscount(reason) ==
    /\ cancellingDiscountId # None
    /\ IF selectedStaff # None
         THEN /\ Len(saves) + Len(FlushEffect) + Len(SaveEffect(staff)) <= MaxInFlight
              /\ staff' = CancelledStaff(staff, selectedStaff[1].id,
                                         cancellingDiscountId[1], reason)
              /\ cancellingDiscountId' = None
              /\ scheduled' = None
              /\ effectDue' = FALSE
              /\ saves' = saves \o FlushEffect \o SaveEffect(staff')
         ELSE UNCHANGED <<staff, cancellingDiscountId, saves, scheduled, effectDue>>
    /\ last' = [op |-> "handleCancelDiscount", reason |-> reason]
    /\ Quiet
    /\ NoWrite
    /\ UNCHANGED <<showStaffForm, editingStaff, selectedStaff, discountingStaff,
                   deletingStaffId, clearingHistoryStaff, deleteError, loading, removed, now>>

\* validateAdminPassword of utils/passwords: a synchronous Boolean check
validateAdminPassword(password) == password = AdminPassword

\* variant of DeletedStaff that removes the member at the head of the roster
DeletedStaffHead(roster, id) == IF roster = <<>> THEN roster ELSE Tail(roster)

\* the roster handleDeleteStaff passes to setStaff and to storage.staff.save
DeletedStaff(roster, id) == Filter(LAMBDA s : s.id # id, roster)

\* the delete modal confirms
handleDeleteStaff(password) ==
    /\ deletingStaffId # None
    /\ IF ~validateAdminPassword(password)
         THEN /\ deleteError' = "Contraseña incorrecta"
              /\ Flushing
              /\ UNCHANGED <<staff, scheduled, deletingStaffId>>
         ELSE /\ Len(saves) + 1 + Len(FlushEffect) + Len(SaveEffect(DeletedStaff(staff, deletingStaffId[1])))
                    <= MaxInFlight
              /\ staff' = DeletedStaff(staff, deletingStaffId[1])
              /\ scheduled' = None
              /\ effectDue' = FALSE
              /\ saves' = saves \o <<SaveRequest(staff', "delete", Some(staff))>>
                                \o FlushEffect \o SaveEffect(staff')
              /\ deletingStaffId' = None
              /\ deleteError' = ""
    /\ last' = [op |-> "handleDeleteStaff", password |-> password]
    /\ Quiet
    /\ NoWrite
    /\ UNCHANGED <<showStaffForm, editingStaff, selectedStaff, cancellingDiscountId,
                   discountingStaff, clearingHistoryStaff, loading, removed, now>>

\* variant of ClearedStaff that clears the history of every member
ClearedStaffAll(roster, id) ==
    Map(LAMBDA s : Spread(s, [sales |-> <<>>, discounts |-> <<>>]), roster)

\* the roster handleClearHistory passes to setStaff and to storage.staff.save
ClearedStaff(roster, id) ==
    Map(LAMBDA s : IF s.id = id THEN Spread(s, [sales |-> <<>>, discounts |-> <<>>])
                               ELSE s, roster)

\* variant of handleClearHistory that reports a rejected password as
\* handleDeleteStaff does
handleClearHistoryReporting(password) ==
    /\ clearingHistoryStaff # None
    /\ IF ~validateAdminPassword(password)
         THEN /\ deleteError' = "Contraseña incorrecta"
              /\ Flushing
              /\ UNCHANGED <<staff, scheduled, clearingHistoryStaff>>
         ELSE /\ Len(saves) + 1 + Len(FlushEffect) + Len(SaveEffect(staff)) <= MaxInFlight
              /\ staff' = ClearedStaff(staff, clearingHistoryStaff[1].id)
              /\ scheduled' = None
              /\ effectDue' = FALSE
              /\ saves' = saves \o <<SaveRequest(staff', "clear", None)>>
                                \o FlushEffect \o SaveEffect(staff')
              /\ clearingHistoryStaff' = None
              /\ UNCHANGED deleteError
    /\ last' = [op |-> "handleClearHistory", password |-> password]
    /\ Quiet
    /\ NoWrite
    /\ UNCHANGED <<showStaffForm, editingStaff, selectedStaff, cancellingDiscountId,
                   discountingStaff, deletingStaffId, loading, removed, now>>

\* the clear-history modal confirms
handleClearHistory(password) ==
    /\ clearingHistoryStaff # None
    /\ IF ~validateAdminPassword(password)
         THEN UNCHANGED <<staff, saves, scheduled, effectDue, clearingHistoryStaff>>
         ELSE /\ Len(saves) + 1 + Len(FlushEffect) + Len(SaveEffect(staff)) <= MaxInFlight
              /\ staff' = ClearedStaff(staff, clearingHistoryStaff[1].id)
              /\ scheduled' = None
              /\ effectDue' = FALSE
              /\ saves' = saves \o <<SaveRequest(staff', "clear", None)>>
                                \o FlushEffect \o SaveEffect(staff')
              /\ clearingHistoryStaff' = None
    /\ last' = [op |-> "handleClearHistory", password |-> password]
    /\ Quiet
    /\ NoWrite
    /\ UNCHANGED <<showStaffForm, editingStaff, selectedStaff, cancellingDiscountId,
                   discountingStaff, deletingStaffId, deleteError, loading, removed, now>>

\* variant of UpdatedStaff that sets the flag on every sale of the member
UpdatedStaffAllSales(roster, staffId, saleId, commissionPaid) ==
    Map(LAMBDA s :
          IF s.id = staffId
            THEN [s EXCEPT !.sales =
                    Map(LAMBDA sale : Spread(sale, [commissionPaid |-> commissionPaid]),
                        s.sales)]
            ELSE s, roster)

\* the roster handleUpdateSale passes to setStaff
UpdatedStaff(roster, staffId, saleId, commissionPaid) ==
    Map(LAMBDA s :
          IF s.id = staffId
            THEN [s EXCEPT !.sales =
                    Map(LAMBDA sale : IF sale.id = saleId
                                        THEN Spread(sale, [commissionPaid |-> commissionPaid])
                                        ELSE sale,
                        s.sales)]
            ELSE s, roster)

\* the history view toggles a commission
handleUpdateSale(staffId, saleId, commissionPaid) ==
    /\ Len(saves) + Len(FlushEffect) + Len(SaveEffect(staff)) <= MaxInFlight
    /\ staff' = UpdatedStaff(staff, staffId, saleId, commissionPaid)
    /\ scheduled' = None
    /\ effectDue' = FALSE
    /\ saves' = saves \o FlushEffect \o SaveEffect(staff')
    /\ last' = [op |-> "handleUpdateSale", staffId |-> staffId, saleId |-> saleId,
                commissionPaid |-> commissionPaid]
    /\ Quiet
    /\ NoWrite
    /\ UNCHANGED <<selections, loading, removed, now>>

(* ---------------------------- callbacks ------------------------------- *)
\* whether one more pending-action selection may be set, or `sel` is set already
MayOpen(sel) == sel # None \/ OpenCount < MaxOpen

\* the members the list view shows, shown only while the roster is non-empty
Listed == {staff[k] : k \in 1..Len(staff)}

\* the "Nuevo Colaborador" button
onNewStaff ==
    /\ editingStaff' = None
    /\ showStaffForm' = TRUE
    /\ last' = [op |-> "onNewStaff"]
    /\ Quiet
    /\ NoWrite
    /\ UNCHANGED <<staff, selectedStaff, cancellingDiscountId, discountingStaff,
                   deletingStaffId, clearingHistoryStaff, deleteError,
                   loading, scheduled, removed, now>>
    /\ Flushing

\* StaffList onEdit
onEdit(member) ==
    /\ member \in Listed /\ MayOpen(editingStaff)
    /\ editingStaff' = Some(member)
    /\ showStaffForm' = TRUE
    /\ last' = [op |-> "onEdit", member |-> member]
    /\ Quiet
    /\ NoWrite
    /\ UNCHANGED <<staff, selectedStaff, cancellingDiscountId, discountingStaff,
                   deletingStaffId, clearingHistoryStaff, deleteError,
                   loading, scheduled, removed, now>>
    /\ Flushing

\* StaffList onDelete
onDelete(staffId) ==
    /\ (\E member \in Listed : member.id = staffId) /\ MayOpen(deletingStaffId)
    /\ deletingStaffId' = Some(staffId)
    /\ last' = [op |-> "onDelete", staffId |-> staffId, was |-> deletingStaffId]
    /\ Quiet
    /\ NoWrite
    /\ UNCHANGED <<staff, showStaffForm, editingStaff, selectedStaff, cancellingDiscountId,
                   discountingStaff, clearingHistoryStaff, deleteError,
                   loading, scheduled, removed, now>>
    /\ Flushing

\* StaffList onViewHistory
onViewHistory(member) ==
    /\ member \in Listed /\ MayOpen(selectedStaff)
    /\ selectedStaff' = Some(member)
    /\ last' = [op |-> "onViewHistory", member |-> member]
    /\ Quiet
    /\ NoWrite
    /\ UNCHANGED <<staff, showStaffForm, editingStaff, cancellingDiscountId,
                   discountingStaff, deletingStaffId, clearingHistoryStaff, deleteError,
                   loading, scheduled, removed, now>>
    /\ Flushing

\* StaffList onAddDiscount
onAddDiscount(member) ==
    /\ member \in Listed /\ MayOpen(discountingStaff)
    /\ discountingStaff' = Some(member)
    /\ last' = [op |-> "onAddDiscount", member |-> member]
    /\ Quiet
    /\ NoWrite
    /\ UNCHANGED <<staff, showStaffForm, editingStaff, selectedStaff, cancellingDiscountId,
                   deletingStaffId, clearingHistoryStaff, deleteError,
                   loading, scheduled, removed, now>>
    /\ Flushing

\* StaffList onClearHistory
onClearHistory(member) ==
    /\ member \in Listed /\ MayOpen(clearingHistoryStaff)
    /\ clearingHistoryStaff' = Some(member)
    /\ last' = [op |-> "onClearHistory", member |-> member]
    /\ Quiet
    /\ NoWrite
    /\ UNCHANGED <<staff, showStaffForm, editingStaff, selectedStaff, cancellingDiscountId,
                   discountingStaff, deletingStaffId, deleteError,
                   loading, scheduled, removed, now>>
    /\ Flushing

\* StaffHistory onCancelDiscount: the view shows the member it was given
onCancelDiscount(discountId) ==
    /\ selectedStaff # None /\ MayOpen(cancellingDiscountId)
    /\ \E k \in 1..Len(selectedStaff[1].discounts) :
          selectedStaff[1].discounts[k].id = discountId
    /\ cancellingDiscountId' = Some(discountId)
    /\ last' = [op |-> "onCancelDiscount", discountId |-> discountId]
    /\ Quiet
    /\ NoWrite
    /\ UNCHANGED <<staff, showStaffForm, editingStaff, selectedStaff, discountingStaff,
                   deletingStaffId, clearingHistoryStaff, deleteError,
                   loading, scheduled, removed, now>>
    /\ Flushing

\* StaffHistory onUpdateSale: the view shows the member it was given
onUpdateSale(saleId, commissionPaid) ==
    /\ selectedStaff # None
    /\ \E k \in 1..Len(selectedStaff[1].sales) : selectedStaff[1].sales[k].id = saleId
    /\ handleUpdateSale(selectedStaff[1].id, saleId, commissionPaid)

\* StaffForm onClose
onCloseForm ==
    /\ showStaffForm
    /\ showStaffForm' = FALSE
    /\ editingStaff' = None
    /\ last' = [op |-> "onCloseForm"]
    /\ Quiet
    /\ NoWrite
    /\ UNCHANGED <<staff, selectedStaff, cancellingDiscountId, discountingStaff,
                   deletingStaffId, clearingHistoryStaff, deleteError,
                   loading, scheduled, removed, now>>
    /\ Flushing

\* variant of onCloseHistory that also drops the pending discount cancellation
onCloseHistoryAndCancel ==
    /\ selectedStaff # None
    /\ selectedStaff' = None
    /\ cancellingDiscountId' = None
    /\ last' = [op |-> "onCloseHistory"]
    /\ Quiet
    /\ NoWrite
    /\ UNCHANGED <<staff, showStaffForm, editingStaff,
                   discountingStaff, deletingStaffId, clearingHistoryStaff, deleteError,
                   loading, scheduled, removed, now>>
    /\ Flushing

\* StaffHistory onClose
onCloseHistory ==
    /\ selectedStaff # None
    /\ selectedStaff' = None
    /\ last' = [op |-> "onCloseHistory"]
    /\ Quiet
    /\ NoWrite
    /\ UNCHANGED <<staff, showStaffForm, editingStaff, cancellingDiscountId,
                   discountingStaff, deletingStaffId, clearingHistoryStaff, deleteError,
                   loading, scheduled, removed, now>>
    /\ Flushing

\* AddDiscountModal onClose
onCloseAddDiscount ==
    /\ discountingStaff # None
    /\ discountingStaff' = None
    /\ last' = [op |-> "onCloseAddDiscount"]
    /\ Quiet
    /\ NoWrite
    /\ UNCHANGED <<staff, showStaffForm, editingStaff, selectedStaff, cancellingDiscountId,
                   deletingStaffId, clearingHistoryStaff, deleteError,
                   loading, scheduled, removed, now>>
    /\ Flushing

\* CancelDiscountModal onClose
onCloseCancelDiscount ==
    /\ cancellingDiscountId # None
    /\ cancellingDiscountId' = None
    /\ last' = [op |-> "onCloseCancelDiscount"]
    /\ Quiet
    /\ NoWrite
    /\ UNCHANGED <<staff, showStaffForm, editingStaff, selectedStaff, discountingStaff,
                   deletingStaffId, clearingHistoryStaff, deleteError,
                   loading, scheduled, removed, now>>
    /\ Flushing

\* variant of onCloseDelete that leaves deleteError as it is
onCloseDeleteKeepsError ==
    /\ deletingStaffId # None
    /\ deletingStaffId' = None
    /\ last' = [op |-> "onCloseDelete"]
    /\ Quiet
    /\ NoWrite
    /\ UNCHANGED <<staff, showStaffForm, editingStaff, selectedStaff, cancellingDiscountId,
                   discountingStaff, clearingHistoryStaff, deleteError,
                   loading, scheduled, removed, now>>
    /\ Flushing

\* DeleteStaffModal onClose
onCloseDelete ==
    /\ deletingStaffId # None
    /\ deletingStaffId' = None
    /\ deleteError' = ""
    /\ last' = [op |-> "onCloseDelete"]
    /\ Quiet
    /\ NoWrite
    /\ UNCHANGED <<staff, showStaffForm, editingStaff, selectedStaff, cancellingDiscountId,
                   discountingStaff, clearingHistoryStaff, loading, scheduled, removed, now>>
    /\ Flushing

\* ClearHistoryModal onClose
onCloseClearHistory ==
    /\ clearingHistoryStaff # None
    /\ clearingHistoryStaff' = None
    /\ last' = [op |-> "onCloseClearHistory"]
    /\ Quiet
    /\ NoWrite
    /\ UNCHANGED <<staff, showStaffForm, editingStaff, selectedStaff, cancellingDiscountId,
                   discountingStaff, deletingStaffId, deleteError,
                   loading, scheduled, removed, now>>
    /\ Flushing

(* ---------------------------- specification ---------------------------- *)
\* existingCodes={staff.map(s => s.code)}
existingCodes == {staff[k].code : k \in 1..Len(staff)}
\* StaffForm submits a new member only with a code that is not in existingCodes
FormAccepts(staffData) == editingStaff # None \/ staffData.code \notin existingCodes

\* the ids the list view may pass to onDelete
ListedIds == {staff[k].id : k \in 1..Len(staff)}
\* the ids the history view may pass to its callbacks
ShownDiscountIds ==
    IF selectedStaff = None THEN {}
    ELSE {selectedStaff[1].discounts[k].id : k \in 1..Len(selectedStaff[1].discounts)}
ShownSaleIds ==
    IF selectedStaff = None THEN {}
    ELSE {selectedStaff[1].sales[k].id : k \in 1..Len(selectedStaff[1].sales)}

\* a user gesture is handled
Gesture == gestures < MaxGestures /\ gestures' = gestures + 1
\* the cancel-discount modal is confirmed: it is reached through the history
\* view, and one open when the gestures of the session are used up is still
\* confirmed
Confirm == gestures <= MaxGestures /\ gestures' = gestures + 1

Next ==
    \/ \E data \in LoadValues : LoadResolve(data) /\ UNCHANGED gestures
    \/ LoadReject /\ UNCHANGED gestures
    \/ Render /\ UNCHANGED gestures
    \/ RunEffect /\ UNCHANGED gestures
    \/ \E i \in 1..Len(saves) : SaveResolve(i) /\ UNCHANGED gestures
    \/ \E i \in 1..Len(saves) : SaveReject(i) /\ UNCHANGED gestures
    \/ \E staffData \in StaffData :
          \E t \in StartClock..MaxClock :
             FormAccepts(staffData) /\ handleAddStaff(staffData, t) /\ Gesture
    \/ \E staffData \in StaffData :
          FormAccepts(staffData) /\ handleEditStaff(staffData) /\ Gesture
    \/ \E d \in DiscountData, t \in StartClock..MaxClock, u \in StartClock..MaxClock :
          handleAddDiscount(d.amount, d.reason, t, u) /\ Gesture
    \/ \E reason \in CancelReasons : handleCancelDiscount(reason) /\ Confirm
    \/ \E password \in Passwords : handleDeleteStaff(password) /\ Gesture
    \/ \E password \in Passwords : handleClearHistory(password) /\ Gesture
    \/ \E saleId \in ShownSaleIds, commissionPaid \in BOOLEAN :
          onUpdateSale(saleId, commissionPaid) /\ Gesture
    \/ onNewStaff /\ Gesture
    \/ \E member \in Listed : onEdit(member) /\ Gesture
    \/ \E staffId \in ListedIds : onDelete(staffId) /\ Gesture
    \/ \E member \in Listed : onViewHistory(member) /\ Gesture
    \/ \E member \in Listed : onAddDiscount(member) /\ Gesture
    \/ \E member \in Listed : onClearHistory(member) /\ Gesture
    \/ \E discountId \in ShownDiscountIds : onCancelDiscount(discountId) /\ Gesture
    \/ onCloseForm /\ Gesture
    \/ onCloseHistory /\ Gesture
    \/ onCloseAddDiscount /\ Gesture
    \/ onCloseCancelDiscount /\ Gesture
    \/ onCloseDelete /\ Gesture
    \/ onCloseClearHistory /\ Gesture

Spec == Init /\ [][Next]_vars

(* ---------------------------- properties ------------------------------ *)
Ids(roster) == {roster[k].id : k \in 1..Len(roster)}
Range(q) == {q[k] : k \in 1..Len(q)}
\* how many of the first n members of roster have the given id
CountId(roster, id, n) == Cardinality({j \in 1..n : roster[j].id = id})
\* the step just taken ran the named handler
Ran(op) == last'.op = op
\* the save requests issued by the step just taken
Issued ==
    IF last'.op \in {"saveResolve", "saveReject"}
      THEN SubSeq(saves', Len(saves), Len(saves'))
      ELSE SubSeq(saves', Len(saves) + 1, Len(saves'))

\* C1: a deletion confirm with a rejected password leaves the roster and the
\* pending deletingStaffId as they are and sets a non-empty deleteError; with an
\* accepted password the new roster has no member with the id deletingStaffId,
\* keeps every member with another id in its relative position, and
\* deletingStaffId and deleteError are cleared.
C1_DeleteConfirm ==
    [][Ran("handleDeleteStaff") =>
         IF ~validateAdminPassword(last'.password)
           THEN /\ staff' = staff
                /\ deleteError' # ""
                /\ deletingStaffId' = deletingStaffId /\ deletingStaffId' # None
           ELSE LET id == deletingStaffId[1] IN
                /\ id \notin Ids(staff')
                /\ Len(staff') = Len(staff) - CountId(staff, id, Len(staff))
                /\ \A k \in 1..Len(staff) :
                      staff[k].id # id => staff'[k - CountId(staff, id, k)] = staff[k]
                /\ deletingStaffId' = None
                /\ deleteError' = ""]_vars

\* C1 witness: an accepted deletion has removed the first of two members and
\* kept the second.
C1_Witness ==
    /\ last.op = "handleDeleteStaff" /\ validateAdminPassword(last.password)
    /\ \E i \in 1..Len(saves) :
          /\ saves[i].origin = "delete" /\ saves[i].roster = staff
          /\ Len(saves[i].closure[1]) = 2
          /\ staff = <<saves[i].closure[1][2]>>
    /\ deletingStaffId = None /\ deleteError = ""

\* the call a pending request stands for
Call(r) == [roster |-> r.roster, origin |-> r.origin, closure |-> r.closure]

\* C2: every pending save of a deletion closes over the roster as it was when
\* that deletion was confirmed, whatever happens in between; when it rejects,
\* an alert is raised and that roster is passed to setStaff; and the roster
\* becomes that roster: the next change of the roster is its render.
C2_DeleteRollback ==
    [][/\ \A i \in 1..Len(saves') :
             saves'[i].origin = "delete" =>
                \/ Call(saves'[i]) \in {Call(r) : r \in Range(saves)}
                \/ Ran("handleDeleteStaff") /\ saves'[i].closure = Some(staff)
                     /\ saves'[i].roster = staff'
       /\ Ran("saveReject") /\ last'.request.origin = "delete" =>
             /\ last'.request \in Range(saves)
             /\ scheduled' = Some(last'.request.closure[1])
             /\ alerted' # {}
       /\ last.op = "saveReject" /\ last.request.origin = "delete" /\ staff' # staff =>
             staff' = last.request.closure[1]]_vars

\* a member of the roster is gone after the step, or a member's sales or
\* discounts went from non-empty to empty
Destroyed ==
    \/ \E k \in 1..Len(staff) : staff[k].id \notin Ids(staff')
    \/ \E k \in 1..Len(staff), j \in 1..Len(staff') :
          /\ staff[k].id = staff'[j].id
          /\ \/ staff[k].sales # <<>> /\ staff'[j].sales = <<>>
             \/ staff[k].discounts # <<>> /\ staff'[j].discounts = <<>>

\* C3: a step in which a member disappears or a member's history is emptied
\* is a delete confirm or a clear-history confirm with an accepted password.
C3_DestructiveGated ==
    [][Destroyed =>
         /\ Ran("handleDeleteStaff") \/ Ran("handleClearHistory")
         /\ validateAdminPassword(last'.password)]_vars

\* C4: no two members of the roster have the same id.
C4_UniqueIds ==
    \A i, j \in 1..Len(staff) : i # j => staff[i].id # staff[j].id

\* C5: when the load rejects or resolves with a value that is no list, the
\* empty roster is passed to setStaff and something is logged; when it resolves
\* with a list, that list is passed to setStaff; and the roster becomes what
\* was passed: the next change of the roster is its render.
C5_LoadFallback ==
    [][/\ Ran("loadReject") \/ (Ran("loadResolve") /\ ~last'.data.isArray) =>
             scheduled' = Some(<<>>) /\ logged' # {}
       /\ Ran("loadResolve") /\ last'.data.isArray =>
             scheduled' = Some(last'.data.value)
       /\ last.op \in {"loadResolve", "loadReject"} /\ scheduled # None /\ staff' # staff =>
             staff' = scheduled[1]]_vars

\* the requests among those just issued that the save effect issued
IssuedByEffect == SelectSeq(Issued, LAMBDA r : r.origin = "effect")

\* C6: the change-triggered save carries the whole roster of the render it
\* belongs to and is issued exactly when that roster is non-empty: in the step
\* that changes the roster when an event handler changed it; for a roster a
\* promise callback passed to setStaff, the effect is due from the commit and
\* stays due until a step runs it, which is when its save is issued, before
\* that of a new roster. A request carrying an empty roster comes from the
\* explicit save of a delete confirm or of a clear-history confirm only.
C6_EffectSave ==
    [][/\ Len(IssuedByEffect) <= 2
       /\ \A r \in Range(IssuedByEffect) :
             r.roster # <<>> /\ (r.roster = staff \/ r.roster = staff')
       /\ staff' # staff /\ ~effectDue' =>
             (Len(staff') > 0 <=>
                 /\ IssuedByEffect # <<>>
                 /\ IssuedByEffect[Len(IssuedByEffect)].roster = staff')
       /\ staff' # staff /\ effectDue' => Ran("render")
       /\ effectDue /\ (~effectDue' \/ Ran("render")) =>
             (Len(staff) > 0 <=>
                 IssuedByEffect # <<>> /\ IssuedByEffect[1].roster = staff)
       /\ effectDue /\ effectDue' /\ ~Ran("render") =>
             staff' = staff /\ Issued = <<>>
       /\ ~effectDue /\ staff' = staff /\ ~Ran("render") => Len(IssuedByEffect) <= 1
       /\ \A r \in Range(Issued) :
             r.roster = <<>> =>
                \/ r.origin = "delete" /\ Ran("handleDeleteStaff")
                \/ r.origin = "clear" /\ Ran("handleClearHistory")]_vars

\* C6 witness: a confirmed deletion has emptied the roster; the only request
\* pending is the deletion's own, carrying the empty roster.
C6_Witness ==
    /\ last.op = "handleDeleteStaff" /\ staff = <<>>
    /\ Len(saves) = 1 /\ saves[1].origin = "delete" /\ saves[1].roster = <<>>
    /\ saves[1].closure[1] # <<>>

\* C7: an add yields a roster one longer: the old members unchanged and in
\* order, then the new member with the submitted fields and empty sales and
\* discounts.
C7_AddStaff ==
    [][Ran("handleAddStaff") =>
         /\ Len(staff') = Len(staff) + 1
         /\ SubSeq(staff', 1, Len(staff)) = staff
         /\ \A f \in DOMAIN last'.staffData :
               staff'[Len(staff')][f] = last'.staffData[f]
         /\ staff'[Len(staff')].sales = <<>>
         /\ staff'[Len(staff')].discounts = <<>>]_vars

\* C7 witness: a member was added behind a member that has a history.
C7_Witness ==
    /\ last.op = "handleAddStaff" /\ Len(staff) = 2
    /\ staff[1].sales # <<>>
    /\ staff[2].name = last.staffData.name /\ staff[2].sales = <<>>

\* C8: an edit keeps the length and order of the roster; a member whose id is
\* editingStaff.id keeps its id, sales and discounts and takes the submitted
\* fields; every other member is unchanged.
C8_EditStaff ==
    [][Ran("handleEditStaff") =>
         /\ Len(staff') = Len(staff)
         /\ \A k \in 1..Len(staff) :
               IF staff[k].id = editingStaff[1].id
                 THEN /\ DOMAIN staff'[k] = DOMAIN staff[k]
                      /\ \A f \in DOMAIN staff[k] :
                            staff'[k][f] = IF f \in DOMAIN last'.staffData
                                             THEN last'.staffData[f] ELSE staff[k][f]
                      /\ staff'[k].id = staff[k].id
                      /\ staff'[k].sales = staff[k].sales
                      /\ staff'[k].discounts = staff[k].discounts
                 ELSE staff'[k] = staff[k]]_vars

\* C8 witness: a member with sales and discounts was renamed, the other member
\* was not.
C8_Witness ==
    /\ last.op = "handleEditStaff" /\ Len(staff) = 2
    /\ staff[1].name = last.staffData.name
    /\ staff[1].sales # <<>> /\ staff[1].discounts # <<>>
    /\ staff[2].name # last.staffData.name

\* d2 is d1 cancelled with the given reason: status and cancellationReason are
\* set, every other field is as before
IsCancelled(d1, d2, reason) ==
    /\ d2.status = "cancelled" /\ d2.cancellationReason = Some(reason)
    /\ d2.id = d1.id /\ d2.date = d1.date
    /\ d2.amount = d1.amount /\ d2.reason = d1.reason
    /\ DOMAIN d2 = DOMAIN d1

\* C9: a discount cancellation with a history view open cancels, with the given
\* reason, the discounts with the id cancellingDiscountId of the members with
\* the id selectedStaff.id, keeping their amount, reason and date; the other
\* discounts of those members and all other members are unchanged.
C9_CancelDiscount ==
    [][Ran("handleCancelDiscount") /\ selectedStaff # None =>
         /\ Len(staff') = Len(staff)
         /\ \A k \in 1..Len(staff) :
               IF staff[k].id = selectedStaff[1].id
                 THEN /\ staff'[k] = [staff[k] EXCEPT !.discounts = staff'[k].discounts]
                      /\ Len(staff'[k].discounts) = Len(staff[k].discounts)
                      /\ \A j \in 1..Len(staff[k].discounts) :
                            IF staff[k].discounts[j].id = cancellingDiscountId[1]
                              THEN IsCancelled(staff[k].discounts[j],
                                               staff'[k].discounts[j], last'.reason)
                              ELSE staff'[k].discounts[j] = staff[k].discounts[j]
                 ELSE staff'[k] = staff[k]]_vars

\* C9 witness: of the two discounts of the first member the first was
\* cancelled with the given reason and the second is as it was loaded; the
\* second member is as it was loaded.
C9_Witness ==
    /\ last.op = "handleCancelDiscount" /\ cancellingDiscountId = None
    /\ Len(staff) = 2 /\ Len(staff[1].discounts) = 2
    /\ staff[1].discounts[1].status = "cancelled"
    /\ staff[1].discounts[1].cancellationReason = Some(last.reason)
    /\ staff[1].discounts[1].amount = Stored1.discounts[1].amount
    /\ staff[1].discounts[2] = Stored1.discounts[2]
    /\ staff[2] = Stored2

\* C10: an added discount is appended, active and with the given amount and
\* reason, to the discounts of the members with the id discountingStaff.id,
\* whose earlier discounts and other fields are unchanged, as are all other
\* members; a later cancellation leaves every field of a discount but status
\* and cancellationReason as it was.
C10_AddDiscount ==
    [][/\ Ran("handleAddDiscount") =>
             /\ Len(staff') = Len(staff)
             /\ \A k \in 1..Len(staff) :
                   IF staff[k].id = discountingStaff[1].id
                     THEN /\ staff'[k] = [staff[k] EXCEPT !.discounts = staff'[k].discounts]
                          /\ Len(staff'[k].discounts) = Len(staff[k].discounts) + 1
                          /\ SubSeq(staff'[k].discounts, 1, Len(staff[k].discounts))
                                = staff[k].discounts
                          /\ LET d == staff'[k].discounts[Len(staff'[k].discounts)] IN
                                /\ d.status = "active"
                                /\ d.amount = last'.amount
                                /\ d.reason = last'.reason
                     ELSE staff'[k] = staff[k]
       /\ Ran("handleCancelDiscount") /\ selectedStaff # None =>
             \A k \in 1..Len(staff) :
                /\ Len(staff'[k].discounts) = Len(staff[k].discounts)
                /\ \A j \in 1..Len(staff[k].discounts) :
                      \A f \in DOMAIN staff[k].discounts[j] \ {"status", "cancellationReason"} :
                         staff'[k].discounts[j][f] = staff[k].discounts[j][f]]_vars

\* C10 witness: a discount was added behind the two loaded discounts of the
\* first member and then cancelled: it has the amount and reason it was added
\* with and the status and reason of the cancellation; the two loaded
\* discounts and the second member are as they were.
C10_Witness ==
    /\ last.op = "handleCancelDiscount" /\ cancellingDiscountId = None
    /\ Len(staff) = 2 /\ Len(staff[1].discounts) = 3
    /\ SubSeq(staff[1].discounts, 1, 2) = Stored1.discounts
    /\ \E d \in DiscountData, t \in StartClock..MaxClock, u \in StartClock..MaxClock :
          staff[1].discounts[3] =
             [NewDiscount(d.amount, d.reason, t, u) EXCEPT
                 !.status = "cancelled", !.cancellationReason = Some(last.reason)]
    /\ staff[2] = Stored2

\* C11: every discount of every member of the roster has a cancellationReason
\* exactly when its status is cancelled.
C11_ReasonIffCancelled ==
    \A k \in 1..Len(staff) : \A j \in 1..Len(staff[k].discounts) :
       staff[k].discounts[j].cancellationReason # None
          <=> staff[k].discounts[j].status = "cancelled"

\* C11 witness: the discount that was loaded active was cancelled with the
\* reason given, beside the discount that was loaded cancelled.
C11_Witness ==
    /\ last.op = "handleCancelDiscount" /\ cancellingDiscountId = None
    /\ Len(staff) = 2 /\ Len(staff[1].discounts) = 2
    /\ Stored1.discounts[1].status = "active"
    /\ staff[1].discounts[1].status = "cancelled"
    /\ staff[1].discounts[1].cancellationReason = Some(last.reason)
    /\ staff[1].discounts[2] = Stored1.discounts[2]

\* C12: a clear-history confirm with an accepted password empties the sales and
\* discounts of the members with the id clearingHistoryStaff.id, keeps their
\* other fields and all other members, issues an explicit save of the new
\* roster and clears clearingHistoryStaff.
C12_ClearHistory ==
    [][Ran("handleClearHistory") /\ validateAdminPassword(last'.password) =>
         /\ Len(staff') = Len(staff)
         /\ \A k \in 1..Len(staff) :
               IF staff[k].id = clearingHistoryStaff[1].id
                 THEN /\ DOMAIN staff'[k] = DOMAIN staff[k]
                      /\ staff'[k].sales = <<>> /\ staff'[k].discounts = <<>>
                      /\ \A f \in DOMAIN staff[k] \ {"sales", "discounts"} :
                            staff'[k][f] = staff[k][f]
                 ELSE staff'[k] = staff[k]
         /\ \E n \in 1..Len(Issued) :
               Issued[n].origin = "clear" /\ Issued[n].roster = staff'
         /\ clearingHistoryStaff' = None]_vars

\* C12 witness: the history of the first member was cleared, the second member
\* is as it was loaded, and the explicit save of that roster is pending.
C12_Witness ==
    /\ last.op = "handleClearHistory" /\ validateAdminPassword(last.password)
    /\ Len(staff) = 2
    /\ staff[1] = [Stored1 EXCEPT !.sales = <<>>, !.discounts = <<>>]
    /\ staff[2] = Stored2
    /\ \E i \in 1..Len(saves) : saves[i].origin = "clear" /\ saves[i].roster = staff
    /\ clearingHistoryStaff = None

\* C13: a clear-history confirm with a rejected password changes neither the
\* roster nor any selection nor deleteError, and issues no save.
C13_ClearHistoryRejected ==
    [][Ran("handleClearHistory") /\ ~validateAdminPassword(last'.password) =>
         /\ staff' = staff
         /\ selections' = selections
         /\ saves' = saves]_vars

\* C13 witness: a password was rejected, the clear-history selection and the
\* history of the selected member are still there, nothing is pending.
C13_Witness ==
    /\ last.op = "handleClearHistory" /\ ~validateAdminPassword(last.password)
    /\ clearingHistoryStaff # None /\ deleteError = ""
    /\ \E k \in 1..Len(staff) :
          staff[k].id = clearingHistoryStaff[1].id /\ staff[k].sales # <<>>
    /\ saves = <<>>

\* C14: when a save other than a deletion's explicit save rejects, the roster
\* and every selection are unchanged, nothing is alerted and the failure is
\* logged.
C14_OtherSaveFailure ==
    [][Ran("saveReject") /\ last'.request.origin # "delete" =>
         /\ staff' = staff
         /\ selections' = selections
         /\ alerted' = {}
         /\ logged' # {}]_vars

\* C15 as stated: closing a modal or panel clears its own selection (the
\* delete modal also deleteError), changes neither the roster nor another
\* selection, and no save is issued.
C15_CloseNoSave ==
    [][/\ Ran("onCloseForm") =>
             /\ showStaffForm' = FALSE /\ editingStaff' = None
             /\ UNCHANGED <<staff, saves, selectedStaff, cancellingDiscountId,
                            discountingStaff, deletingStaffId, clearingHistoryStaff,
                            deleteError>>
       /\ Ran("onCloseHistory") =>
             /\ selectedStaff' = None
             /\ UNCHANGED <<staff, saves, showStaffForm, editingStaff, cancellingDiscountId,
                            discountingStaff, deletingStaffId, clearingHistoryStaff,
                            deleteError>>
       /\ Ran("onCloseAddDiscount") =>
             /\ discountingStaff' = None
             /\ UNCHANGED <<staff, saves, showStaffForm, editingStaff, selectedStaff,
                            cancellingDiscountId, deletingStaffId, clearingHistoryStaff,
                            deleteError>>
       /\ Ran("onCloseCancelDiscount") =>
             /\ cancellingDiscountId' = None
             /\ UNCHANGED <<staff, saves, showStaffForm, editingStaff, selectedStaff,
                            discountingStaff, deletingStaffId, clearingHistoryStaff,
                            deleteError>>
       /\ Ran("onCloseClearHistory") =>
             /\ clearingHistoryStaff' = None
             /\ UNCHANGED <<staff, saves, showStaffForm, editingStaff, selectedStaff,
                            cancellingDiscountId, discountingStaff, deletingStaffId,
                            deleteError>>
       /\ Ran("onCloseDelete") =>
             /\ deletingStaffId' = None /\ deleteError' = ""
             /\ UNCHANGED <<staff, saves, showStaffForm, editingStaff, selectedStaff,
                            cancellingDiscountId, discountingStaff,
                            clearingHistoryStaff>>]_vars

\* the step issues no save but that of the save effect due on the roster of
\* the render before it
OnlyDueSave ==
    /\ \A r \in Range(Issued) : effectDue /\ r.origin = "effect" /\ r.roster = staff
    /\ Len(Issued) <= 1
    /\ SubSeq(saves', 1, Len(saves)) = saves

\* C15: closing a modal or panel clears its own selection (the delete modal
\* also deleteError) and changes neither the roster nor another selection;
\* the only save its render may issue is that of a save effect still due on
\* the unchanged roster.
C15_Close ==
    [][/\ Ran("onCloseForm") =>
             /\ showStaffForm' = FALSE /\ editingStaff' = None
             /\ OnlyDueSave
             /\ UNCHANGED <<staff, selectedStaff, cancellingDiscountId,
                            discountingStaff, deletingStaffId, clearingHistoryStaff,
                            deleteError>>
       /\ Ran("onCloseHistory") =>
             /\ selectedStaff' = None
             /\ OnlyDueSave
             /\ UNCHANGED <<staff, showStaffForm, editingStaff, cancellingDiscountId,
                            discountingStaff, deletingStaffId, clearingHistoryStaff,
                            deleteError>>
       /\ Ran("onCloseAddDiscount") =>
             /\ discountingStaff' = None
             /\ OnlyDueSave
             /\ UNCHANGED <<staff, showStaffForm, editingStaff, selectedStaff,
                            cancellingDiscountId, deletingStaffId, clearingHistoryStaff,
                            deleteError>>
       /\ Ran("onCloseCancelDiscount") =>
             /\ cancellingDiscountId' = None
             /\ OnlyDueSave
             /\ UNCHANGED <<staff, showStaffForm, editingStaff, selectedStaff,
                            discountingStaff, deletingStaffId, clearingHistoryStaff,
                            deleteError>>
       /\ Ran("onCloseClearHistory") =>
             /\ clearingHistoryStaff' = None
             /\ OnlyDueSave
             /\ UNCHANGED <<staff, showStaffForm, editingStaff, selectedStaff,
                            cancellingDiscountId, discountingStaff, deletingStaffId,
                            deleteError>>
       /\ Ran("onCloseDelete") =>
             /\ deletingStaffId' = None /\ deleteError' = ""
             /\ OnlyDueSave
             /\ UNCHANGED <<staff, showStaffForm, editingStaff, selectedStaff,
                            cancellingDiscountId, discountingStaff,
                            clearingHistoryStaff>>]_vars

\* C15 witness: the history view was closed while a discount cancellation was
\* pending, which still is.
C15_Witness ==
    /\ last.op = "onCloseHistory" /\ selectedStaff = None
    /\ cancellingDiscountId # None
    /\ staff # <<>>

\* C16: nothing orders overlapping saves. A step that issues saves leaves the
\* pending ones pending, neither waiting for them nor dropping them; and when
\* one resolves, whichever it is, the component does nothing: it issues no save and leaves the roster, and any
\* update of it not yet rendered, alone.
C16_UnorderedSaves ==
    [][/\ ~Ran("saveResolve") /\ ~Ran("saveReject") =>
             SubSeq(saves', 1, Len(saves)) = saves
       /\ Ran("saveResolve") =>
             /\ last'.index \in 1..Len(saves) /\ last'.request = saves[last'.index]
             /\ saves' = RemoveAt(saves, last'.index)
             /\ Issued = <<>>
             /\ staff' = staff /\ scheduled' = scheduled /\ effectDue' = effectDue]_vars

\* C16 witness: a change-triggered save has resolved right after a save issued
\* later, with which it was pending, had resolved with the present roster; with a
\* storage that applies writes as they complete the last write is the roster
\* of the overtaken request, which differs from the present one, and no save
\* is pending or due.
C16_Witness ==
    /\ last.op = "saveResolve"
    /\ last.request.origin = "effect"
    /\ last.overtaken = Some(staff)
    /\ written = Some(last.request.roster)
    /\ written # Some(staff)
    /\ saves = <<>> /\ scheduled = None /\ ~effectDue

\* C17: handleUpdateSale(staffId, saleId, commissionPaid) sets commissionPaid
\* on the sales with that id of the members with that id; the other fields of
\* those sales, the other sales, the discounts and other fields of those
\* members, the other members, and the length and order of the roster and of
\* each sale list are unchanged.
C17_UpdateSale ==
    [][Ran("handleUpdateSale") =>
         /\ Len(staff') = Len(staff)
         /\ \A k \in 1..Len(staff) :
               IF staff[k].id = last'.staffId
                 THEN /\ DOMAIN staff'[k] = DOMAIN staff[k]
                      /\ \A f \in DOMAIN staff[k] \ {"sales"} :
                            staff'[k][f] = staff[k][f]
                      /\ Len(staff'[k].sales) = Len(staff[k].sales)
                      /\ \A j \in 1..Len(staff[k].sales) :
                            IF staff[k].sales[j].id = last'.saleId
                              THEN /\ DOMAIN staff'[k].sales[j] = DOMAIN staff[k].sales[j]
                                   /\ staff'[k].sales[j].commissionPaid
                                         = last'.commissionPaid
                                   /\ \A f \in DOMAIN staff[k].sales[j] \ {"commissionPaid"} :
                                         staff'[k].sales[j][f] = staff[k].sales[j][f]
                              ELSE staff'[k].sales[j] = staff[k].sales[j]
                 ELSE staff'[k] = staff[k]]_vars

\* C17 witness: the commission of the first of the first member's two sales,
\* both loaded unpaid, was set to paid; the rest of that sale, the member's
\* other sale and discounts and the second member are as loaded.
C17_Witness ==
    /\ last.op = "handleUpdateSale" /\ last.commissionPaid
    /\ Len(staff) = 2
    /\ Len(Stored1.sales) = 2
    /\ ~Stored1.sales[1].commissionPaid /\ ~Stored1.sales[2].commissionPaid
    /\ staff[1] = [Stored1 EXCEPT !.sales[1].commissionPaid = TRUE]
    /\ staff[2] = Stored2

\* C18: no member of the roster has the id of a member whose deletion was
\* confirmed and saved.
C18_DeletedStaysDeleted == \A id \in removed : id \notin Ids(staff)

\* C19: while the history view is open, every roster member with the id of
\* selectedStaff equals the record the view receives.
C19_HistoryShowsRoster ==
    selectedStaff # None =>
       \A k \in 1..Len(staff) :
          staff[k].id = selectedStaff[1].id => staff[k] = selectedStaff[1]

\* C20 as stated: deleteError is non-empty only while deletingStaffId is set,
\* and a delete modal opened for another member than before shows no error.
C20_NoStaleError ==
    /\ (deleteError # "" => deletingStaffId # None)
    /\ [][/\ deleteError' # "" => deletingStaffId' # None
          /\ Ran("onDelete") /\ deletingStaffId' # deletingStaffId =>
                deleteError' = ""]_vars

\* C20: deleteError is non-empty only while deletingStaffId is set, so a delete
\* modal opened while none was open shows no error; onDelete sets the member
\* to delete and leaves deleteError as it is, also when the modal is open for
\* another member.
C20_ErrorOnlyWhileDeleting ==
    /\ (deleteError # "" => deletingStaffId # None)
    /\ [][/\ deleteError' # "" => deletingStaffId' # None
          /\ Ran("onDelete") =>
                /\ deletingStaffId' = Some(last'.staffId)
                /\ deleteError' = deleteError
                /\ deletingStaffId = None => deleteError' = ""]_vars

\* C20 witness: a deletion confirm was rejected and, with the modal still
\* open, another member was chosen for deletion: the modal is open for that
\* member and shows the error of the earlier attempt.
C20_Witness ==
    /\ last.op = "onDelete"
    /\ last.was # None /\ last.was # Some(last.staffId)
    /\ deletingStaffId = Some(last.staffId)
    /\ deleteError # ""

====
